---- MODULE Spec2Model ----
(***************************************************************************)
(* Disk-resident B-tree index (project3.py): node codec, three-slot node   *)
(* cache with write-back, and the B-tree engine (search, insert with       *)
(* pre-emptive splits and parent back-pointers, in-order traversal).       *)
(*                                                                         *)
(* A block is modelled as its 64 big-endian 64-bit words (512 bytes / 8).  *)
(* The file is a sequence of blocks; file[b + 1] is block b.               *)
(* Node objects live in a heap during one engine call, so that two         *)
(* references to the same Python object alias, and an object that has      *)
(* been evicted from the cache can still be mutated by its holder.         *)
(***************************************************************************)
EXTENDS Integers, Sequences, FiniteSets, TLC

\* ------------------------------------------------------------------------
\* Program constants
\* ------------------------------------------------------------------------
BLOCK_SIZE == 512
\* number of 8-byte words in a block
WORDS == BLOCK_SIZE \div 8
\* stand-in for the 8-byte magic b"4348PRJ3", kept as one word
MAGIC == 4348
T == 10
MAX_KEYS == 2 * T - 1
MAX_CHILDREN == 2 * T
\* NodeCache(self.f, max_nodes=3)
max_nodes == 3
\* the Python value None returned by search
None == -1

\* ------------------------------------------------------------------------
\* Bounds of the model
\* ------------------------------------------------------------------------
\* width of a packed word in the model (the code packs 64-bit words)
WordBits == 12
U64_MAX == 2 ^ WordBits - 1

\* ------------------------------------------------------------------------
\* Sequence helpers (Python list operations)
\* ------------------------------------------------------------------------
Min(a, b) == IF a < b THEN a ELSE b
Max(a, b) == IF a > b THEN a ELSE b

\* s[:n]
Take(s, n) == SubSeq(s, 1, Min(n, Len(s)))
\* s[n:]
Drop(s, n) == SubSeq(s, Min(n, Len(s)) + 1, Len(s))
\* list.append(x) where list.insert(i, x) is meant
ListInsertAtEnd(s, i, x) == Append(s, x)
\* list.insert(i, x) with a 0-based position i
ListInsert(s, i, x) == Take(s, i) \o <<x>> \o Drop(s, i)
\* a value update that is lost
ListSetLost(s, i, x) == s
\* s[i] = x with a 0-based position i
ListSet(s, i, x) == [s EXCEPT ![i + 1] = x]
\* [0] * n
Zeros(n) == [j \in 1..n |-> 0]

\* ------------------------------------------------------------------------
\* BTreeNode
\* ------------------------------------------------------------------------
\* BTreeNode.__init__: a fresh object is dirty
NewNode(block_id, parent_id, keys, values, children) ==
    [block_id |-> block_id, parent_id |-> parent_id, keys |-> keys,
     values |-> values, children |-> children, dirty |-> TRUE]

\* BTreeNode.count
Count(node) == Len(node.keys)

\* BTreeNode.is_leaf: no non-zero child
IsLeaf(node) == \A j \in 1..Len(node.children) : node.children[j] = 0

\* a test that lets a full node pass
IsFullLate(node) == Count(node) > MAX_KEYS
\* a node counted as full one key early
IsFullEarly(node) == Count(node) >= MAX_KEYS - 1
\* node.count == BTreeNode.MAX_KEYS
IsFull(node) == Count(node) = MAX_KEYS

\* a parent_id that is left as it was
SetParentKept(node, parent_id) == node
\* node.parent_id = parent_id
SetParent(node, parent_id) == [node EXCEPT !.parent_id = parent_id]

\* an upper half that takes the median along
UpperHalfWithMedian(s) == Drop(s, T - 1)
\* _split_child: full_child.keys[t:], .values[t:], .children[t:]
UpperHalf(s) == Drop(s, T)
\* a split that leaves the median in the lower half too
LowerKeysWithMedian(s) == Take(s, T)
\* _split_child: full_child.keys[:t - 1], .values[:t - 1]
LowerKeys(s) == Take(s, T - 1)
\* _split_child: full_child.children[:t]
LowerChildren(s) == Take(s, T)

\* the size checks of BTreeNode.encode
EncodeOk(node) ==
    /\ Len(node.keys) = Len(node.values)
    /\ Len(node.keys) <= MAX_KEYS
    /\ Len(node.children) <= MAX_CHILDREN

\* BTreeNode.encode: words 0..2 header, 19 keys, 19 values, 20 children,
\* zero padding
Encode(node) ==
    [w \in 1..WORDS |->
        IF w = 1 THEN node.block_id
        ELSE IF w = 2 THEN node.parent_id
        ELSE IF w = 3 THEN Count(node)
        ELSE IF w <= 3 + MAX_KEYS
             THEN (IF w - 3 <= Len(node.keys) THEN node.keys[w - 3] ELSE 0)
        ELSE IF w <= 3 + 2 * MAX_KEYS
             THEN (IF w - 3 - MAX_KEYS <= Len(node.values)
                   THEN node.values[w - 3 - MAX_KEYS] ELSE 0)
        ELSE IF w <= 3 + 2 * MAX_KEYS + MAX_CHILDREN
             THEN (IF w - 3 - 2 * MAX_KEYS <= Len(node.children)
                   THEN node.children[w - 3 - 2 * MAX_KEYS] ELSE 0)
        ELSE 0]

\* a decode that leaves the constructor's dirty = True
DecodeDirty(block_id, data) ==
    LET count == data[3]
        keys == [j \in 1..MAX_KEYS |-> data[3 + j]]
        values == [j \in 1..MAX_KEYS |-> data[3 + MAX_KEYS + j]]
        children == [j \in 1..MAX_CHILDREN |-> data[3 + 2 * MAX_KEYS + j]]
    IN  [block_id |-> data[1], parent_id |-> data[2],
         keys |-> Take(keys, count), values |-> Take(values, count),
         children |-> Take(children, count + 1), dirty |-> TRUE]
\* BTreeNode.decode: the id is taken from the block, the vectors are
\* truncated to count and count + 1, the object is clean
Decode(block_id, data) ==
    LET count == data[3]
        keys == [j \in 1..MAX_KEYS |-> data[3 + j]]
        values == [j \in 1..MAX_KEYS |-> data[3 + MAX_KEYS + j]]
        children == [j \in 1..MAX_CHILDREN |-> data[3 + 2 * MAX_KEYS + j]]
    IN  [block_id |-> data[1], parent_id |-> data[2],
         keys |-> Take(keys, count), values |-> Take(values, count),
         children |-> Take(children, count + 1), dirty |-> FALSE]

\* ------------------------------------------------------------------------
\* The backing file
\* ------------------------------------------------------------------------
ZeroBlock == [w \in 1..WORDS |-> 0]

\* seek(block_id * BLOCK_SIZE); write(data): a write past the end of the
\* file leaves a zero-filled gap
FileWrite(f, block_id, data) ==
    [b \in 1..Max(Len(f), block_id + 1) |->
        IF b = block_id + 1 THEN data
        ELSE IF b <= Len(f) THEN f[b] ELSE ZeroBlock]

\* a header with the two ids in each other's place
HeaderBlockSwapped(root, next) ==
    [w \in 1..WORDS |->
        IF w = 1 THEN MAGIC ELSE IF w = 2 THEN next
        ELSE IF w = 3 THEN root ELSE 0]
\* the header block written by BTreeFile.__init__(create) / _write_header
HeaderBlock(root, next) ==
    [w \in 1..WORDS |->
        IF w = 1 THEN MAGIC ELSE IF w = 2 THEN root
        ELSE IF w = 3 THEN next ELSE 0]

\* ------------------------------------------------------------------------
\* One engine call runs on a machine record m:
\*   file, root_id, next_block_id   as in BTreeFile
\*   heap    the node objects alive during the call (index = reference)
\*   cache   the OrderedDict, least recently used first: <<key, ref>>
\*   err     the exception that ended the call, "none" if it returned
\*   ret     the value returned by the last callee
\*   out     the pairs delivered to the traversal sink
\*   log     events of the call, in order: the cache's reads, writes,
\*           hits, drops and mark_dirty calls, and the entries of
\*           _insert_nonfull; a mark, a write and an entry carry the
\*           node's number of keys and children at that moment
\* ------------------------------------------------------------------------
Ev(ev, bid, own, dirty, ok) ==
    [ev |-> ev, bid |-> bid, own |-> own, dirty |-> dirty, ok |-> ok,
     keys |-> 0, kids |-> 0]

Sized(e, node) ==
    [e EXCEPT !.keys = Len(node.keys), !.kids = Len(node.children)]

Raise(m, e) == [m EXCEPT !.err = e]

\* position of block_id in the OrderedDict, 0 if absent
CachePos(c, block_id) ==
    IF \E p \in 1..Len(c) : c[p].bid = block_id
    THEN CHOOSE p \in 1..Len(c) : c[p].bid = block_id
    ELSE 0

\* an access that leaves the entry where it is
MoveToEndSkipped(c, p) == c
\* OrderedDict.move_to_end
MoveToEnd(c, p) == Take(c, p - 1) \o Drop(c, p) \o <<c[p]>>

\* NodeCache._write_block
WriteBlock(m, block_id, ref) ==
    IF ~EncodeOk(m.heap[ref]) THEN Raise(m, "encode")
    ELSE [m EXCEPT !.file = FileWrite(m.file, block_id, Encode(m.heap[ref])),
                   !.log = Append(m.log,
                       Sized(Ev("write", block_id, m.heap[ref].block_id,
                                m.heap[ref].dirty, TRUE), m.heap[ref]))]

\* does the file hold exactly this object's encoding at block_id
OnDisk(m, block_id, ref) ==
    /\ block_id + 1 <= Len(m.file)
    /\ EncodeOk(m.heap[ref])
    /\ m.file[block_id + 1] = Encode(m.heap[ref])

\* NodeCache.get, the eviction: the entry `old` has left the OrderedDict
\* and, if dirty, has been written
EvictDrop(m, old) ==
    IF m.err # "none" THEN m
    ELSE [m EXCEPT !.log = Append(m.log,
              Ev("drop", old.bid, m.heap[old.ref].block_id,
                 m.heap[old.ref].dirty, OnDisk(m, old.bid, old.ref)))]

\* popitem(last=False)
PopFirst(m) == [m EXCEPT !.cache = Tail(m.cache)]

\* an eviction that drops the node without writing it
EvictNoWrite(m) == EvictDrop(PopFirst(m), Head(m.cache))
\* NodeCache.get, the eviction: popitem(last=False), write it if dirty
Evict(m) ==
    EvictDrop(IF m.heap[Head(m.cache).ref].dirty
              THEN WriteBlock(PopFirst(m), Head(m.cache).bid, Head(m.cache).ref)
              ELSE PopFirst(m),
              Head(m.cache))

\* no object of this call for block_id carries state the file does not hold
FreshOnDisk(m, block_id) ==
    \A r \in 1..Len(m.heap) :
        m.heap[r].block_id = block_id => OnDisk(m, block_id, r)

\* NodeCache.get, a hit at position p: move_to_end and return the object
GetHit(m, p) ==
    [m EXCEPT !.cache = MoveToEnd(m.cache, p), !.ret = m.cache[p].ref,
              !.log = Append(m.log,
                  Ev("hit", m.cache[p].bid, m.heap[m.cache[p].ref].block_id,
                     m.heap[m.cache[p].ref].dirty, TRUE))]

\* NodeCache.get, a miss: the decoded node becomes a new object, last in
\* the OrderedDict
GetRead(m, block_id, node) ==
    [m EXCEPT !.heap = Append(m.heap, node),
              !.cache = Append(m.cache,
                               [bid |-> block_id, ref |-> Len(m.heap) + 1]),
              !.ret = Len(m.heap) + 1,
              !.log = Append(m.log,
                  Ev("read", block_id, node.block_id, FALSE,
                     FreshOnDisk(m, block_id)))]

\* NodeCache.get, a miss after the eviction: _read_block and decode
GetMiss(m, block_id) ==
    IF m.err # "none" THEN m
    ELSE IF block_id + 1 > Len(m.file) THEN Raise(m, "io")
    ELSE GetRead(m, block_id, Decode(block_id, m.file[block_id + 1]))

\* NodeCache.get
Get(m, block_id) ==
    IF m.err # "none" THEN m
    ELSE IF CachePos(m.cache, block_id) # 0
    THEN GetHit(m, CachePos(m.cache, block_id))
    ELSE GetMiss(IF Len(m.cache) >= max_nodes THEN Evict(m) ELSE m, block_id)

\* NodeCache.mark_dirty, for the object's position p in the OrderedDict
\* (0 if its block id is absent)
MarkDirtyAt(m, ref, p) ==
    [m EXCEPT !.heap[ref].dirty = TRUE,
              !.cache = IF p = 0
                        THEN Append(m.cache,
                                 [bid |-> m.heap[ref].block_id, ref |-> ref])
                        ELSE MoveToEnd([m.cache EXCEPT ![p].ref = ref], p),
              !.log = Append(m.log,
                  Sized(Ev("mark", m.heap[ref].block_id, m.heap[ref].block_id,
                           TRUE, p = 0 \/ m.cache[p].ref = ref),
                        m.heap[ref]))]

\* NodeCache.mark_dirty
MarkDirty(m, ref) ==
    IF m.err # "none" THEN m
    ELSE MarkDirtyAt(m, ref, CachePos(m.cache, m.heap[ref].block_id))

\* NodeCache.flush_all, the loop from position p on
RECURSIVE FlushFrom(_, _)
FlushFrom(m, p) ==
    IF m.err # "none" \/ p > Len(m.cache) THEN m
    ELSE FlushFrom(IF m.heap[m.cache[p].ref].dirty
                   THEN WriteBlock(m, m.cache[p].bid, m.cache[p].ref)
                   ELSE m,
                   p + 1)

\* NodeCache.flush_all, self.cache.clear()
FlushClear(m) ==
    IF m.err # "none" THEN m
    ELSE [m EXCEPT !.cache = <<>>,
                   !.log = m.log \o
                       [p \in 1..Len(m.cache) |->
                           Ev("drop", m.cache[p].bid,
                              m.heap[m.cache[p].ref].block_id,
                              m.heap[m.cache[p].ref].dirty,
                              OnDisk(m, m.cache[p].bid, m.cache[p].ref))]]

\* NodeCache.flush_all
FlushAll(m) == FlushClear(FlushFrom(m, 1))

\* ------------------------------------------------------------------------
\* BTreeFile
\* ------------------------------------------------------------------------
\* a close that leaves the header as it was
WriteHeaderSkipped(m) == m
\* BTreeFile._write_header
WriteHeader(m) ==
    IF m.err # "none" THEN m
    ELSE [m EXCEPT !.file = FileWrite(m.file, 0,
                                HeaderBlock(m.root_id, m.next_block_id))]

\* BTreeFile._load_header: the fields read back from block 0
LoadHeader(f) == [root_id |-> f[1][2], next_block_id |-> f[1][3]]

\* BTreeFile.close
CloseFile(m) == WriteHeader(FlushAll(m))

\* an allocation that does not advance next_block_id
AllocateNodeSameId(m, parent_id) ==
    IF m.err # "none" THEN m
    ELSE [MarkDirty(
              [m EXCEPT !.heap = Append(m.heap,
                            NewNode(m.next_block_id, parent_id,
                                    <<>>, <<>>, <<0>>))],
              Len(m.heap) + 1)
          EXCEPT !.ret = Len(m.heap) + 1]
\* BTreeFile.allocate_node
AllocateNode(m, parent_id) ==
    IF m.err # "none" THEN m
    ELSE [MarkDirty(
              [m EXCEPT !.next_block_id = m.next_block_id + 1,
                        !.heap = Append(m.heap,
                            NewNode(m.next_block_id, parent_id,
                                    <<>>, <<>>, <<0>>))],
              Len(m.heap) + 1)
          EXCEPT !.ret = Len(m.heap) + 1]

\* a loop that also steps over the key it looks for
FindIndexPast(keys, key) ==
    IF \E j \in 1..Len(keys) : ~(key >= keys[j])
    THEN (CHOOSE j \in 1..Len(keys) :
              /\ ~(key >= keys[j])
              /\ \A h \in 1..(j - 1) : key >= keys[h]) - 1
    ELSE Len(keys)
\* the while loop of _search_node and _insert_nonfull: the first 0-based
\* index i with not (key > keys[i]), count if there is none
FindIndex(keys, key) ==
    IF \E j \in 1..Len(keys) : ~(key > keys[j])
    THEN (CHOOSE j \in 1..Len(keys) :
              /\ ~(key > keys[j])
              /\ \A h \in 1..(j - 1) : key > keys[h]) - 1
    ELSE Len(keys)

RECURSIVE SearchNode(_, _, _)

\* BTreeFile._search_node, after the while loop stopped at index i in node
SearchAt(m, key, node, i) ==
    IF i < Count(node) /\ key = node.keys[i + 1]
    THEN [m EXCEPT !.ret = node.values[i + 1]]
    ELSE IF IsLeaf(node) THEN [m EXCEPT !.ret = None]
    ELSE IF i + 1 > Len(node.children) THEN Raise(m, "index")
    ELSE IF node.children[i + 1] = 0 THEN [m EXCEPT !.ret = None]
    ELSE SearchNode(m, node.children[i + 1], key)

\* BTreeFile._search_node, after get_node returned
SearchIn(m, key) ==
    IF m.err # "none" THEN m
    ELSE SearchAt(m, key, m.heap[m.ret], FindIndex(m.heap[m.ret].keys, key))

\* BTreeFile._search_node
SearchNode(m, block_id, key) == SearchIn(Get(m, block_id), key)

\* BTreeFile.search
SearchOp(m, key) ==
    IF m.root_id = 0 THEN [m EXCEPT !.ret = None]
    ELSE SearchNode(m, m.root_id, key)

\* _split_child, one moved child, after get_node returned it: point it at
\* the new node and mark it dirty
RewireOne(m, new_id) ==
    IF m.err # "none" THEN m
    ELSE MarkDirty([m EXCEPT !.heap[m.ret] = SetParent(m.heap[m.ret], new_id)],
                   m.ret)

\* _split_child, the loop over the children moved to the new node
RECURSIVE RewireChildren(_, _, _, _)
RewireChildren(m, ids, j, new_id) ==
    IF m.err # "none" \/ j > Len(ids) THEN m
    ELSE IF ids[j] = 0 THEN RewireChildren(m, ids, j + 1, new_id)
    ELSE RewireChildren(RewireOne(Get(m, ids[j]), new_id), ids, j + 1, new_id)

\* a split that relies on the marks made before it
SplitPromoteUnmarked(m, parent, index, full_child, new_node, median_key, median_val) ==
    [m EXCEPT
       !.heap[parent].keys =
           ListInsert(m.heap[parent].keys, index, median_key),
       !.heap[parent].values =
           ListInsert(m.heap[parent].values, index, median_val),
       !.heap[parent].children =
           ListInsert(m.heap[parent].children, index + 1,
                      m.heap[new_node].block_id)]
\* _split_child, the end: the median goes into the parent at `index`, the
\* new node's id after it; parent, full_child and new_node are marked dirty
SplitPromote(m, parent, index, full_child, new_node, median_key, median_val) ==
    MarkDirty(MarkDirty(MarkDirty(
        [m EXCEPT
           !.heap[parent].keys =
               ListInsert(m.heap[parent].keys, index, median_key),
           !.heap[parent].values =
               ListInsert(m.heap[parent].values, index, median_val),
           !.heap[parent].children =
               ListInsert(m.heap[parent].children, index + 1,
                          m.heap[new_node].block_id)],
        parent), full_child), new_node)

\* _split_child, after the children were moved: shrink full_child
SplitShrink(m, parent, index, full_child, new_node, median_key, median_val) ==
    IF m.err # "none" THEN m
    ELSE SplitPromote(
             [m EXCEPT
                !.heap[full_child].keys = LowerKeys(m.heap[full_child].keys),
                !.heap[full_child].values =
                    LowerKeys(m.heap[full_child].values)],
             parent, index, full_child, new_node, median_key, median_val)

\* _split_child, after allocate_node returned the new node (m.ret): fill
\* it with the upper half and, for an internal node, rewire moved children
SplitFill(m, parent, index, full_child) ==
    IF m.err # "none" THEN m
    ELSE IF Len(m.heap[full_child].keys) < T
            \/ Len(m.heap[full_child].values) < T
    THEN Raise(m, "index")
    ELSE SplitShrink(
             IF IsLeaf(m.heap[full_child])
             THEN [m EXCEPT
                     !.heap[m.ret].keys = UpperHalf(m.heap[full_child].keys),
                     !.heap[m.ret].values =
                         UpperHalf(m.heap[full_child].values),
                     !.heap[m.ret].children =
                         Zeros(Len(UpperHalf(m.heap[full_child].keys)) + 1)]
             ELSE RewireChildren(
                      [m EXCEPT
                         !.heap[m.ret].keys =
                             UpperHalf(m.heap[full_child].keys),
                         !.heap[m.ret].values =
                             UpperHalf(m.heap[full_child].values),
                         !.heap[m.ret].children =
                             UpperHalf(m.heap[full_child].children),
                         !.heap[full_child].children =
                             LowerChildren(m.heap[full_child].children)],
                      UpperHalf(m.heap[full_child].children), 1,
                      m.heap[m.ret].block_id),
             parent, index, full_child, m.ret,
             m.heap[full_child].keys[T], m.heap[full_child].values[T])

\* BTreeFile._split_child(parent, index, full_child) on object references
SplitChild(m, parent, index, full_child) ==
    IF m.err # "none" THEN m
    ELSE SplitFill(AllocateNode(m, m.heap[parent].block_id),
                   parent, index, full_child)

RECURSIVE InsertNonfull(_, _, _, _)

\* _insert_nonfull, the recursive call on the child get_node returned
InsertInto(m, key, value) == InsertNonfull(m, m.ret, key, value)

\* _insert_nonfull, after _split_child promoted a median to position i
InsertAfterSplit(m, node, key, value, i) ==
    IF m.err # "none" THEN m
    ELSE IF key > m.heap[node].keys[i + 1]
    THEN InsertInto(Get(m, m.heap[node].children[i + 2]), key, value)
    ELSE IF key = m.heap[node].keys[i + 1]
    THEN MarkDirty([m EXCEPT !.heap[node].values =
                                 ListSet(m.heap[node].values, i, value)], node)
    ELSE InsertInto(Get(m, m.heap[node].children[i + 1]), key, value)

\* _insert_nonfull, after get_node returned the child (m.ret)
InsertBelow(m, node, key, value, i) ==
    IF m.err # "none" THEN m
    ELSE IF IsFull(m.heap[m.ret])
    THEN InsertAfterSplit(SplitChild(m, node, i, m.ret), node, key, value, i)
    ELSE InsertNonfull(m, m.ret, key, value)

\* _insert_nonfull, after the while loop stopped at index i
InsertAt(m, node, key, value, i) ==
    IF i < Count(m.heap[node]) /\ key = m.heap[node].keys[i + 1]
    THEN \* key already exists: update value
         MarkDirty([m EXCEPT !.heap[node].values =
                                 ListSet(m.heap[node].values, i, value)], node)
    ELSE IF IsLeaf(m.heap[node])
    THEN MarkDirty([m EXCEPT
                      !.heap[node].keys = ListInsert(m.heap[node].keys, i, key),
                      !.heap[node].values =
                          ListInsert(m.heap[node].values, i, value)],
                   node)
    ELSE IF i + 1 > Len(m.heap[node].children) THEN Raise(m, "index")
    ELSE InsertBelow(Get(m, m.heap[node].children[i + 1]), node, key, value, i)

\* _insert_nonfull has been called on node: the entry is logged with the
\* node's id, its parent_id and whether it has room for a key
Entered(m, node) ==
    [m EXCEPT !.log = Append(m.log,
        Sized(Ev("enter", m.heap[node].block_id, m.heap[node].parent_id,
                 m.heap[node].dirty, ~IsFull(m.heap[node])),
              m.heap[node]))]

\* BTreeFile._insert_nonfull(node, key, value) on an object reference
InsertNonfull(m, node, key, value) ==
    IF m.err # "none" THEN m
    ELSE InsertAt(Entered(m, node), node, key, value,
                  FindIndex(m.heap[node].keys, key))

\* a first insert that writes the header at once
InsertEmptySavingHeader(m, key, value) ==
    WriteHeader([MarkDirty([m EXCEPT !.heap[m.ret].keys = <<key>>,
                                     !.heap[m.ret].values = <<value>>,
                                     !.heap[m.ret].children = <<0, 0>>],
                           m.ret)
                 EXCEPT !.root_id = m.heap[m.ret].block_id])
\* a first insert that fills the node but leaves root_id at 0
InsertEmptyRootless(m, key, value) ==
    MarkDirty([m EXCEPT !.heap[m.ret].keys = <<key>>,
                        !.heap[m.ret].values = <<value>>,
                        !.heap[m.ret].children = <<0, 0>>],
              m.ret)
\* insert into the empty tree, after allocate_node returned the root
InsertEmpty(m, key, value) ==
    [MarkDirty([m EXCEPT !.heap[m.ret].keys = <<key>>,
                         !.heap[m.ret].values = <<value>>,
                         !.heap[m.ret].children = <<0, 0>>],
               m.ret)
     EXCEPT !.root_id = m.heap[m.ret].block_id]

\* insert, the split of a full root, after allocate_node returned the
\* new root (m.ret)
SplitRoot(m, root, key, value) ==
    InsertNonfull(
        SplitChild(
            [MarkDirty(
                 [m EXCEPT
                    !.heap[m.ret].children = <<m.heap[root].block_id>>,
                    !.heap[root] =
                        SetParent(m.heap[root], m.heap[m.ret].block_id)],
                 root)
             EXCEPT !.root_id = m.heap[m.ret].block_id],
            m.ret, 0, root),
        m.ret, key, value)

\* insert, after get_node returned the root (m.ret)
InsertRoot(m, key, value) ==
    IF m.err # "none" THEN m
    ELSE IF IsFull(m.heap[m.ret])
    THEN SplitRoot(AllocateNode(m, 0), m.ret, key, value)
    ELSE InsertNonfull(m, m.ret, key, value)

\* a range one too wide
InRangeWide(x) == 0 <= x /\ x <= U64_MAX + 1
\* insert, the range check: 0 <= x <= 2**64 - 1
InRange(x) == 0 <= x /\ x <= U64_MAX

\* BTreeFile.insert
InsertOp(m, key, value) ==
    IF ~(InRange(key) /\ InRange(value))
    THEN Raise(m, "range")
    ELSE IF m.root_id = 0 THEN InsertEmpty(AllocateNode(m, 0), key, value)
    ELSE InsertRoot(Get(m, m.root_id), key, value)

RECURSIVE InorderNode(_, _)
RECURSIVE InorderLoop(_, _, _)

\* _inorder_node, out_func(node.keys[i], node.values[i]) and the next i
InorderEmit(m, node, i) ==
    IF m.err # "none" THEN m
    ELSE InorderLoop(
             [m EXCEPT !.out = Append(m.out, <<m.heap[node].keys[i + 1],
                                               m.heap[node].values[i + 1]>>)],
             node, i + 1)

\* _inorder_node, the recursion into children[i] when it is not zero
InorderChild(m, node, i) ==
    IF IsLeaf(m.heap[node]) THEN m
    ELSE IF i + 1 > Len(m.heap[node].children) THEN Raise(m, "index")
    ELSE IF m.heap[node].children[i + 1] # 0
    THEN InorderNode(m, m.heap[node].children[i + 1])
    ELSE m

\* _inorder_node: the for loop at position i (0-based) on the node object
\* the caller holds, then the last child
InorderLoop(m, node, i) ==
    IF m.err # "none" THEN m
    ELSE IF i < Count(m.heap[node])
    THEN InorderEmit(InorderChild(m, node, i), node, i)
    ELSE InorderChild(m, node, Count(m.heap[node]))

\* _inorder_node, after get_node returned
InorderEnter(m) == IF m.err # "none" THEN m ELSE InorderLoop(m, m.ret, 0)

\* BTreeFile._inorder_node
InorderNode(m, block_id) == InorderEnter(Get(m, block_id))

\* BTreeFile.inorder_traverse
InorderTraverse(m) ==
    IF m.root_id = 0 THEN m ELSE InorderNode(m, m.root_id)

\* ------------------------------------------------------------------------
\* State
\* ------------------------------------------------------------------------
VARIABLES
    file,           \* the index file: a sequence of blocks, file[b + 1] = block b
    cache,          \* NodeCache.cache between calls: <<[bid, node]>>, LRU first
    root_id,        \* BTreeFile.root_id
    next_block_id,  \* BTreeFile.next_block_id
    opened,         \* a BTreeFile handle is open on the file
    expected,       \* history: key -> value of the latest insert of the key
    sess,           \* history: block id -> final encoding of every node
                    \* allocated or modified since the handle was opened
    last,           \* history: the last call, its result and its cache events
    mixed           \* history: searches, traversals and updates since open

vars == <<file, cache, root_id, next_block_id, opened, expected, sess, last,
          mixed>>

\* the machine a call starts on: every cached node is one live object
StartCall ==
    [file |-> file, root_id |-> root_id, next_block_id |-> next_block_id,
     heap |-> [r \in 1..Len(cache) |-> cache[r].node],
     cache |-> [r \in 1..Len(cache) |-> [bid |-> cache[r].bid, ref |-> r]],
     err |-> "none", ret |-> 0, out |-> <<>>, log |-> <<>>]

\* the cache when the call has returned and its local references are gone
EndCache(m) ==
    [p \in 1..Len(m.cache) |->
        [bid |-> m.cache[p].bid, node |-> m.heap[m.cache[p].ref]]]

\* the objects of the call that were allocated or marked dirty
DirtyIds(m) == {m.heap[r].block_id : r \in {q \in 1..Len(m.heap) : m.heap[q].dirty}}

NewestDirty(m, bid) ==
    CHOOSE r \in 1..Len(m.heap) :
        /\ m.heap[r].dirty /\ m.heap[r].block_id = bid
        /\ \A q \in 1..Len(m.heap) :
               (m.heap[q].dirty /\ m.heap[q].block_id = bid) => q <= r

EndSess(m) ==
    [b \in DOMAIN sess \cup DirtyIds(m) |->
        IF b \in DirtyIds(m) THEN Encode(m.heap[NewestDirty(m, b)])
        ELSE sess[b]]

\* the node a get_node(b) issued now would return: the resident object,
\* else the decoded block (an all-zero node if the file ends before it)
NodeAt(b) ==
    IF CachePos(cache, b) # 0 THEN cache[CachePos(cache, b)].node
    ELSE IF b + 1 <= Len(file) THEN Decode(b, file[b + 1])
    ELSE Decode(b, ZeroBlock)

\* every allocated block, as get_node would return it now
AllNodes == [b \in 1..(next_block_id - 1) |-> NodeAt(b)]

\* the non-zero child ids of the nodes in ids
Kids(nodes, ids) ==
    UNION {{nodes[b].children[j] : j \in 1..Len(nodes[b].children)} :
           b \in ids \cap DOMAIN nodes} \ {0}

\* the ids reachable by child links from the ids in frontier
RECURSIVE Reach(_, _, _)
Reach(nodes, seen, frontier) ==
    IF frontier = {} THEN seen
    ELSE Reach(nodes, seen \cup frontier,
               Kids(nodes, frontier) \ (seen \cup frontier))

\* the ids of the nodes of the tree
TreeIds(nodes) == IF root_id = 0 THEN {} ELSE Reach(nodes, {}, {root_id})

\* the keys stored in the subtree under block b
SubKeys(nodes, b) ==
    IF b = 0 THEN {}
    ELSE UNION {{nodes[x].keys[j] : j \in 1..Count(nodes[x])} :
                x \in Reach(nodes, {}, {b}) \cap DOMAIN nodes}

\* the key slots of the tree: node, position, key, value
TreeSlots(nodes) ==
    UNION {{[at |-> b, index |-> j, key |-> nodes[b].keys[j],
             value |-> nodes[b].values[j]] : j \in 1..Count(nodes[b])} :
           b \in TreeIds(nodes) \cap DOMAIN nodes}

\* the child links of the tree: the block of the node holding the link,
\* its block_id field, the position of the link and the child's id
TreeEdges(nodes) ==
    UNION {{[at |-> p, parent |-> nodes[p].block_id, index |-> j,
             child |-> nodes[p].children[j]] :
            j \in {i \in 1..Len(nodes[p].children) :
                      nodes[p].children[i] # 0}} :
           p \in TreeIds(nodes) \cap DOMAIN nodes}

\* the record of a call: what was asked, what came back, whether the key
\* was in the tree before, how many nodes the call allocated, for a close
\* whether a traversal came right before it (then out is its output), for
\* an insert of a key already in the tree the key slots before it, the
\* ids resident when the call began, least recently used first, the
\* blocks of the file the call changed, and for a search, a traversal or a call that
\* raised the engine's variables when it began; for a load its rows
\* block b of file f, zeros past its end
BlockOf(f, b) == IF b + 1 <= Len(f) THEN f[b + 1] ELSE ZeroBlock

NoPre == [file |-> <<>>, cache |-> <<>>, root_id |-> 0, next_block_id |-> 0]

Last(op, key, value, m) ==
    [op |-> op, key |-> key, value |-> value, ret |-> m.ret, err |-> m.err,
     out |-> IF op = "close" /\ last.op = "traverse" THEN last.out ELSE m.out,
     log |-> m.log,
     dup |-> key \in DOMAIN expected,
     alloc |-> m.next_block_id - next_block_id,
     after |-> IF op = "close" THEN last.op ELSE "none",
     before |-> IF op = "insert" /\ key \in DOMAIN expected
                THEN TreeSlots(AllNodes) ELSE {},
     start |-> [p \in 1..Len(cache) |-> cache[p].bid],
     touched |-> {b \in 0..(Max(Len(file), Len(m.file)) - 1) :
                     BlockOf(m.file, b) # BlockOf(file, b)},
     rows |-> <<>>,
     pre |-> IF op \in {"search", "traverse"} \/ m.err # "none"
             THEN [file |-> file, cache |-> cache, root_id |-> root_id,
                   next_block_id |-> next_block_id]
             ELSE NoPre]

NoCall(op) ==
    [op |-> op, key |-> 0, value |-> 0, ret |-> 0, err |-> "none",
     out |-> <<>>, log |-> <<>>, dup |-> FALSE, alloc |-> 0, after |-> "none",
     before |-> {}, start |-> <<>>, touched |-> {}, rows |-> <<>>,
     pre |-> NoPre]

\* the engine's variables after a call on machine m
Commit(m) ==
    /\ file' = m.file
    /\ cache' = EndCache(m)
    /\ root_id' = m.root_id
    /\ next_block_id' = m.next_block_id
    /\ sess' = EndSess(m)

\* ------------------------------------------------------------------------
\* Workload bounds
\* ------------------------------------------------------------------------
\* fresh keys are inserted in ascending order 1, 2, ..., MaxKey or in
\* descending order MaxKey, MaxKey - 1, ..., 1
MaxKey == 205
\* the caller searches, traverses, updates and closes when the number of
\* keys is at most Small, or a multiple of Period, or (up to Horizon keys)
\* a multiple of T or one less, where a node is full or was just split
Small == 2
Period == 40
Horizon == 31
\* searches, traversals and updates per open handle while the tree has at
\* most MAX_KEYS + Small keys; beyond that a handle does one at most
MaxMixed == 1

KeysIn == DOMAIN expected
NKeys == Cardinality(KeysIn)

\* the value the caller gives a key the first time (key * 10), and the
\* value of a later update of it
FirstValue(key) == key * 10
OtherValue(key) == key * 10 + 1

\* the next key of the run: the caller starts at 1 or at MaxKey
FreshKeys ==
    IF KeysIn = {} THEN {1, MaxKey}
    ELSE IF 1 \in KeysIn THEN {NKeys + 1}
    ELSE {MaxKey - NKeys}

\* the keys the caller inserts again: for the ascending run a leaf key,
\* the median of the first root split, a key left and a key right of it;
\* and their mirror images for the descending run
DupLow == {1, T, T + T \div 2, 2 * T}
DupKeys ==
    IF 1 \in KeysIn /\ NKeys < MaxKey THEN DupLow
    ELSE {MaxKey + 1 - k : k \in DupLow}

\* the keys the caller looks up: one below all, the two ends of the key
\* range, and the key inserted last
SearchKeys ==
    {0, 1, MaxKey, IF 1 \in KeysIn THEN NKeys ELSE MaxKey - NKeys + 1}

Canonical == \A k \in KeysIn : expected[k] = FirstValue(k)

\* the caller is at a point where it may read, close or update
Free ==
    \/ NKeys <= Small
    \/ NKeys % Period = 0
    \/ (NKeys <= Horizon /\ NKeys % T \in {0, T - 1})

MayMix ==
    /\ Free
    /\ IF NKeys <= MAX_KEYS + Small THEN mixed < MaxMixed ELSE mixed = 0

\* ------------------------------------------------------------------------
\* Actions: one per top-level operation of BTreeFile
\* ------------------------------------------------------------------------
\* BTreeFile(path, create=True): header with root_id 0 and next_block_id 1
Init ==
    /\ file = <<HeaderBlock(0, 1)>>
    /\ cache = <<>>
    /\ root_id = 0
    /\ next_block_id = 1
    /\ opened = TRUE
    /\ expected = <<>>
    /\ sess = <<>>
    /\ last = NoCall("create")
    /\ mixed = 0

\* the state after insert(key, value) ran to machine m
Inserted(m, key, value) ==
    /\ Commit(m)
    /\ last' = Last("insert", key, value, m)
    /\ expected' = IF m.err = "none"
                   THEN [k \in KeysIn \cup {key} |->
                            IF k = key THEN value ELSE expected[k]]
                   ELSE expected
    /\ UNCHANGED opened

Insert(key, value) ==
    /\ opened
    /\ Inserted(InsertOp(StartCall, key, value), key, value)

\* the state after search(key) or inorder_traverse ran to machine m
Read(m, op, key) ==
    /\ Commit(m)
    /\ last' = Last(op, key, 0, m)
    /\ UNCHANGED <<opened, expected>>

Search(key) ==
    /\ opened
    /\ Read(SearchOp(StartCall, key), "search", key)

Traverse ==
    /\ opened
    /\ Read(InorderTraverse(StartCall), "traverse", 0)

\* the state after close ran to machine m
Closed(m) ==
    /\ file' = m.file
    /\ cache' = EndCache(m)
    /\ last' = Last("close", 0, 0, m)
    /\ opened' = FALSE
    /\ UNCHANGED <<root_id, next_block_id, expected, sess>>

Close ==
    /\ opened
    /\ Closed(CloseFile(StartCall))

\* BTreeFile(path): check the magic, _load_header, a new empty NodeCache
Open ==
    /\ ~opened
    /\ Len(file) >= 1 /\ file[1][1] = MAGIC
    /\ root_id' = LoadHeader(file).root_id
    /\ next_block_id' = LoadHeader(file).next_block_id
    /\ cache' = <<>>
    /\ opened' = TRUE
    /\ sess' = <<>>
    /\ last' = NoCall("open")
    /\ mixed' = 0
    /\ UNCHANGED <<file, expected>>

\* the open handle has allocated every node there is: the header on disk
\* still says what create wrote
FirstHandle == opened /\ LoadHeader(file).next_block_id = 1

\* a handle opened on an existing index is closed when the number of keys
\* reaches a multiple of Period
MustClose ==
    /\ NKeys > 0 /\ NKeys % Period = 0
    /\ ~FirstHandle /\ last.op # "open"

\* a key not yet in the tree, the next of the run
InsertFresh ==
    /\ NKeys < MaxKey
    /\ Canonical
    /\ mixed = 0
    /\ ~MustClose
    /\ \E k \in FreshKeys : Insert(k, FirstValue(k))
    /\ UNCHANGED mixed

\* a key already in the tree, with a value other than its current one
InsertAgain ==
    /\ MayMix
    /\ \E k \in DupKeys \cap KeysIn :
         Insert(k, IF expected[k] = FirstValue(k) THEN OtherValue(k)
                   ELSE FirstValue(k))
    /\ mixed' = mixed + 1

SearchAny ==
    /\ MayMix
    /\ \E k \in SearchKeys : Search(k)
    /\ mixed' = mixed + 1

TraverseAll ==
    /\ MayMix
    /\ Traverse
    /\ mixed' = mixed + 1

CloseHandle ==
    /\ Free
    /\ Close
    /\ UNCHANGED mixed

\* ------------------------------------------------------------------------
\* cmd_load: one handle, one insert per row of the CSV file, close in the
\* finally clause. A row is a pair of integers, an empty row, a row that
\* has not two fields ("short"), or a row with a field int() rejects
\* ("text").
\* ------------------------------------------------------------------------
Pair(key, value) == [kind |-> "pair", key |-> key, value |-> value]
EmptyRow == [kind |-> "empty", key |-> 0, value |-> 0]
ShortRow == [kind |-> "short", key |-> 0, value |-> 0]
TextRow == [kind |-> "text", key |-> 0, value |-> 0]

\* BTreeFile(idx_path) at the start of cmd_load; sess collects the final
\* encoding of every node the handle allocated or modified
LoadStart ==
    [file |-> file, root_id |-> LoadHeader(file).root_id,
     next_block_id |-> LoadHeader(file).next_block_id,
     heap |-> <<>>, cache |-> <<>>,
     err |-> "none", ret |-> 0, out |-> <<>>, log |-> <<>>, sess |-> <<>>]

LoadSess(m) ==
    [b \in DOMAIN m.sess \cup DirtyIds(m) |->
        IF b \in DirtyIds(m) THEN Encode(m.heap[NewestDirty(m, b)])
        ELSE m.sess[b]]

\* bt.insert has returned: the objects it held and the cache does not are
\* gone
Settle(m) ==
    [m EXCEPT !.heap = [r \in 1..Len(m.cache) |-> m.heap[m.cache[r].ref]],
              !.cache = [r \in 1..Len(m.cache) |->
                            [bid |-> m.cache[r].bid, ref |-> r]],
              !.sess = LoadSess(m)]

\* cmd_load, the body of the for loop
LoadRow(m, row) ==
    IF row.kind = "empty" THEN m
    ELSE IF row.kind = "short" THEN Raise(m, "csv")
    ELSE IF row.kind = "text" THEN Raise(m, "value")
    ELSE Settle(InsertOp(m, row.key, row.value))

\* cmd_load, the for loop from row j on
RECURSIVE LoadRows(_, _, _)
LoadRows(m, rows, j) ==
    IF m.err # "none" \/ j > Len(rows) THEN m
    ELSE LoadRows(LoadRow(m, rows[j]), rows, j + 1)

\* a close that runs only if the loop ended without an exception
LoadCloseOnSuccess(m) == CloseFile(m)
\* cmd_load, finally: bt.close(), then the exception of the loop, if any,
\* goes on to the caller
LoadClose(m) ==
    [CloseFile([m EXCEPT !.err = "none"])
     EXCEPT !.err = IF @ # "none" THEN @ ELSE m.err]

\* the row the load stops at: the first that is short, unparsable or out
\* of range; Len(rows) + 1 if there is none
BadRow(row) ==
    \/ row.kind \in {"short", "text"}
    \/ row.kind = "pair" /\ ~(row.key \in 0..U64_MAX /\ row.value \in 0..U64_MAX)

AbortAt(rows) ==
    IF \E j \in 1..Len(rows) : BadRow(rows[j])
    THEN CHOOSE j \in 1..Len(rows) :
             BadRow(rows[j]) /\ \A h \in 1..(j - 1) : ~BadRow(rows[h])
    ELSE Len(rows) + 1

\* the pairs before the row the load stops at, and what applying insert
\* to them in order makes of the expected content
AppliedIndex(rows) ==
    {j \in 1..(AbortAt(rows) - 1) : rows[j].kind = "pair"}

AfterLoad(rows) ==
    [k \in KeysIn \cup {rows[j].key : j \in AppliedIndex(rows)} |->
        IF \E j \in AppliedIndex(rows) : rows[j].key = k
        THEN rows[CHOOSE j \in AppliedIndex(rows) :
                      /\ rows[j].key = k
                      /\ \A h \in AppliedIndex(rows) :
                             rows[h].key = k => h <= j].value
        ELSE expected[k]]

\* the state after cmd_load ran to machine m
Loaded(m, rows) ==
    /\ file' = m.file
    /\ cache' = EndCache(m)
    /\ root_id' = m.root_id
    /\ next_block_id' = m.next_block_id
    /\ sess' = LoadSess(m)
    /\ last' = [Last("load", 0, 0, m) EXCEPT !.rows = rows]
    /\ expected' = AfterLoad(rows)
    /\ opened' = FALSE

Load(rows) ==
    /\ ~opened
    /\ Len(file) >= 1 /\ file[1][1] = MAGIC
    /\ Loaded(LoadClose(LoadRows(LoadStart, rows, 1)), rows)

\* the j-th next key of the run
NextKey(j) ==
    IF KeysIn = {} \/ 1 \in KeysIn THEN NKeys + j ELSE MaxKey - NKeys - j + 1

NextPair(j) == Pair(NextKey(j), FirstValue(NextKey(j)))

\* the CSV files the caller loads: the next keys of the run, with a short
\* row, an unparsable field, an out-of-range value, a bad first row, or
\* no bad row
CsvFiles ==
    {<<NextPair(1), NextPair(2), ShortRow, NextPair(3)>>,
     <<NextPair(1), TextRow, NextPair(2)>>,
     <<NextPair(1), EmptyRow, NextPair(2), Pair(NextKey(3), U64_MAX + 1),
       NextPair(3)>>,
     <<ShortRow, NextPair(1)>>,
     <<NextPair(1), EmptyRow, NextPair(2)>>}

\* the caller loads into the empty index, into a root leaf that splits
\* during the load, and into the largest tree with room for three keys
MayLoad ==
    /\ Canonical
    /\ NKeys + 3 <= MaxKey
    /\ NKeys = 0 \/ NKeys = MAX_KEYS \/ NKeys + Period > MaxKey

LoadFile ==
    /\ MayLoad
    /\ \E rows \in CsvFiles : Load(rows)
    /\ mixed' = 0

\* a key or a value just outside the range insert accepts
OutOfRange == {<<U64_MAX + 1, 0>>, <<0, U64_MAX + 1>>, <<-1, 0>>, <<0, -1>>}

\* the ends of the range: key 0 with the largest value, the largest key
\* with value 0
Edges == {<<0, U64_MAX>>, <<U64_MAX, 0>>}

\* the caller tries the ends of the range on a tree of fewer than Small
\* keys and on the full root leaf
MayTryRange == mixed = 0 /\ Canonical /\ (NKeys < Small \/ NKeys = MAX_KEYS)

InsertOutOfRange ==
    /\ MayTryRange
    /\ \E kv \in OutOfRange : Insert(kv[1], kv[2])
    /\ mixed' = mixed + 1

InsertEdge ==
    /\ MayTryRange
    /\ \E kv \in Edges : Insert(kv[1], kv[2])
    /\ mixed' = mixed + 1

Next ==
    \/ InsertFresh
    \/ InsertAgain
    \/ InsertOutOfRange
    \/ InsertEdge
    \/ LoadFile
    \/ SearchAny
    \/ TraverseAll
    \/ CloseHandle
    \/ Open

Spec == Init /\ [][Next]_vars

\* ------------------------------------------------------------------------
\* Reading the tree off a state
\* ------------------------------------------------------------------------
\* what the latest insert of each key gave, None for a key never inserted
Lookup(key) == IF key \in KeysIn THEN expected[key] ELSE None

\* the last call was an insert whose arguments passed the range check
InsertedInRange ==
    last.op = "insert" /\ InRange(last.key) /\ InRange(last.value)

\* the keys looked up in every state
ProbeKeys == DupKeys \cup SearchKeys \cup {MaxKey + 1}

\* the machine of a handle freshly opened on the file as it is now
ReopenCall ==
    [file |-> file, root_id |-> LoadHeader(file).root_id,
     next_block_id |-> LoadHeader(file).next_block_id,
     heap |-> <<>>, cache |-> <<>>,
     err |-> "none", ret |-> 0, out |-> <<>>, log |-> <<>>]

\* the pairs are the tree's keys, each once, with its latest value, in
\* strictly increasing key order
ExactPairs(out) ==
    /\ Len(out) = NKeys
    /\ \A i \in 1..Len(out) :
          /\ out[i][1] \in KeysIn
          /\ out[i][2] = expected[out[i][1]]
          /\ i > 1 => out[i - 1][1] < out[i][1]

\* the tree has an internal node below the root
Deep ==
    /\ root_id # 0
    /\ \E j \in 1..Len(NodeAt(root_id).children) :
          /\ NodeAt(root_id).children[j] # 0
          /\ ~IsLeaf(NodeAt(NodeAt(root_id).children[j]))

\* ------------------------------------------------------------------------
\* C1: search(k) returns the value of the most recent insert(k, .) and
\* not-found for a key never inserted (so not-found on the empty tree):
\* for the search just made, and for a search of any probe key issued in
\* the current state.
\* ------------------------------------------------------------------------
C1_SearchReturnsLatest ==
    /\ last.op = "search" =>
          (last.err = "none" /\ last.ret = Lookup(last.key))
    /\ opened =>
          \A k \in ProbeKeys :
              LET m == SearchOp(StartCall, k) IN
              m.err = "none" /\ m.ret = Lookup(k)

\* a search that finds a re-inserted key in a tree that has split
C1_Witness ==
    /\ last.op = "search" /\ last.dup
    /\ expected[last.key] = OtherValue(last.key)
    /\ last.ret = OtherValue(last.key)
    /\ next_block_id > 3

\* ------------------------------------------------------------------------
\* C2: the page cache holds at most 3 resident nodes in every reachable
\* state.
\* ------------------------------------------------------------------------
C2_CacheAtMostThree == Len(cache) <= max_nodes

\* ------------------------------------------------------------------------
\* C3: after close, a handle reopened on the file traverses to exactly the
\* sequence the traversal right before the close delivered, and finds
\* every probe key with its latest value.
\* ------------------------------------------------------------------------
C3_ReopenRoundTrip ==
    ~opened =>
        /\ last.op = "close" => last.err = "none"
        /\ last.after = "traverse" =>
              LET m == InorderTraverse(ReopenCall) IN
              m.err = "none" /\ m.out = last.out
        /\ \A k \in ProbeKeys :
              LET m == SearchOp(ReopenCall, k) IN
              m.err = "none" /\ m.ret = Lookup(k)

\* closed right after a traversal of a split tree holding an updated key
C3_Witness ==
    /\ ~opened /\ last.after = "traverse"
    /\ Len(last.out) >= 2 * T
    /\ ~Canonical

\* ------------------------------------------------------------------------
\* C4: inorder_traverse delivers each key of the tree exactly once, with
\* its latest value, in strictly increasing key order, and nothing on the
\* empty tree: for the traversal just made, and for one issued in the
\* current state.
\* ------------------------------------------------------------------------
C4_TraverseInOrder ==
    /\ last.op = "traverse" => (last.err = "none" /\ ExactPairs(last.out))
    /\ opened =>
          LET m == InorderTraverse(StartCall) IN
          m.err = "none" /\ ExactPairs(m.out)

\* a traversal of a split tree holding an updated key
C4_Witness ==
    /\ last.op = "traverse"
    /\ Len(last.out) >= 2 * T
    /\ ~Canonical

\* ------------------------------------------------------------------------
\* C5: in every state, so after every completed insert, the root has
\* between 1 and MAX_KEYS = 19 keys unless root_id = 0, and every other
\* node reachable from the root has between T - 1 = 9 and 19 keys.
\* ------------------------------------------------------------------------
KeyCounts(nodes, ids) ==
    /\ ids \subseteq DOMAIN nodes
    /\ root_id # 0 => Count(nodes[root_id]) \in 1..MAX_KEYS
    /\ \A b \in ids \ {root_id} : Count(nodes[b]) \in (T - 1)..MAX_KEYS

C5_KeyCounts ==
    /\ InsertedInRange => last.err = "none"
    /\ KeyCounts(AllNodes, TreeIds(AllNodes))

\* an insert has just split a node (the two halves hold T - 1 keys, one
\* of them the new key as well) in a tree of three levels
C5_Witness ==
    /\ last.op = "insert" /\ last.alloc >= 1
    /\ Deep
    /\ \E b \in TreeIds(AllNodes) \ {root_id} : Count(NodeAt(b)) = T - 1

\* ------------------------------------------------------------------------
\* C6: in every state, so after every completed insert, the tree is a
\* search tree: the keys of every node are strictly increasing, every
\* internal node has one child more than keys, every key in the subtree
\* of children[i] is less than keys[i] and every key in the subtree of
\* children[i + 1] is greater than keys[i].
\* ------------------------------------------------------------------------
SearchTree(nodes, ids) ==
    /\ ids \subseteq DOMAIN nodes
    /\ \A b \in ids :
          /\ \A j \in 1..(Count(nodes[b]) - 1) :
                nodes[b].keys[j] < nodes[b].keys[j + 1]
          /\ ~IsLeaf(nodes[b]) =>
                /\ Len(nodes[b].children) = Count(nodes[b]) + 1
                /\ \A i \in 1..Count(nodes[b]) :
                      /\ \A k \in SubKeys(nodes, nodes[b].children[i]) :
                            k < nodes[b].keys[i]
                      /\ \A k \in SubKeys(nodes, nodes[b].children[i + 1]) :
                            k > nodes[b].keys[i]

C6_SearchTree == SearchTree(AllNodes, TreeIds(AllNodes))

\* a key smaller than every key of the tree has just been inserted with a
\* split, in a tree of three levels
C6_Witness ==
    /\ last.op = "insert" /\ ~last.dup /\ last.alloc >= 1
    /\ \A k \in KeysIn : last.key <= k
    /\ Deep

\* ------------------------------------------------------------------------
\* C7: an insert(k, v) of a key k already in the tree returns, leaves the
\* number of key slots as it was before the call with every key in one
\* slot only, and changes the pairs of the tree only in that k now has
\* the value v; whether or not the insert split a node on its way.
\* ------------------------------------------------------------------------
UpdatedInPlace(before, after, key, value) ==
    /\ Cardinality(after) = Cardinality(before)
    /\ \A s, t \in after : s.key = t.key => s = t
    /\ {<<s.key, s.value>> : s \in after} =
          {<<s.key, s.value>> : s \in {t \in before : t.key # key}}
          \cup {<<key, value>>}

C7_DuplicateUpdatesInPlace ==
    (last.op = "insert" /\ last.dup) =>
        /\ last.err = "none"
        /\ UpdatedInPlace(last.before, TreeSlots(AllNodes),
                          last.key, last.value)

\* the insert of a key already in the tree split a full child, which
\* promoted that very key into the root, and gave it a new value there
C7_Witness ==
    /\ last.op = "insert" /\ last.dup /\ last.err = "none"
    /\ last.alloc = 1
    /\ \E j \in 1..Count(NodeAt(root_id)) :
          /\ NodeAt(root_id).keys[j] = last.key
          /\ NodeAt(root_id).values[j] = last.value
    /\ last.value = OtherValue(last.key)

\* ------------------------------------------------------------------------
\* C8: in every state, so after every completed insert, the root has
\* parent_id 0, no child link leads to the root, every other node of the
\* tree is the target of exactly one child link, and its parent_id is the
\* block_id of the node holding that link.
\* ------------------------------------------------------------------------
ParentPointers(nodes, edges) ==
    /\ root_id # 0 => (root_id \in DOMAIN nodes /\ nodes[root_id].parent_id = 0)
    /\ \A e \in edges :
          /\ e.child # root_id
          /\ e.child \in DOMAIN nodes
          /\ e.parent = e.at
          /\ nodes[e.child].parent_id = e.parent
    /\ Cardinality({e.child : e \in edges}) = Cardinality(edges)

C8_ParentPointers == ParentPointers(AllNodes, TreeEdges(AllNodes))

\* an insert has just split an internal root: the upper half of its
\* children moved to the new sibling, the old root got a parent
C8_Witness ==
    /\ last.op = "insert" /\ last.alloc = 2
    /\ Deep
    /\ \A e \in TreeEdges(AllNodes) : NodeAt(e.child).parent_id = e.parent

\* ------------------------------------------------------------------------
\* C9: next_block_id is 1 after creation and no call decreases it; the ids
\* a call allocates are exactly the ids from the old next_block_id up to
\* one below the new one; after every call the allocated ids 1 ..
\* next_block_id - 1 are exactly the nodes of the tree, each carrying its
\* own id, no id is cached twice, no block lies beyond them, and when the
\* handle is closed the last block of the file is node next_block_id - 1
\* and the header holds next_block_id.
\* ------------------------------------------------------------------------
Allocated(log, from) ==
    {log[i].bid : i \in {j \in 1..Len(log) :
                            log[j].ev = "mark" /\ log[j].bid >= from}}

BlockIds(nodes) ==
    /\ next_block_id >= 1
    /\ TreeIds(nodes) = DOMAIN nodes
    /\ \A b \in DOMAIN nodes : nodes[b].block_id = b
    /\ \A p, q \in 1..Len(cache) : cache[p].bid = cache[q].bid => p = q
    /\ \A p \in 1..Len(cache) : cache[p].node.block_id = cache[p].bid
    /\ Len(file) <= next_block_id
    /\ \A b \in 1..(Len(file) - 1) : file[b + 1][1] \in {0, b}
    /\ ~opened =>
          /\ Len(file) = next_block_id
          /\ file[Len(file)][1] = IF next_block_id = 1 THEN MAGIC
                                  ELSE next_block_id - 1
          /\ LoadHeader(file).next_block_id = next_block_id

C9_BlockIds ==
    /\ last.op = "create" => next_block_id = 1
    /\ last.alloc >= 0
    /\ Allocated(last.log, next_block_id - last.alloc) =
          (next_block_id - last.alloc)..(next_block_id - 1)
    /\ BlockIds(AllNodes)

\* a handle opened on an existing file (it never touched block 1) has
\* just allocated a node, the one with the largest id
C9_Witness ==
    /\ opened /\ last.op = "insert" /\ last.alloc = 1
    /\ 1 \notin DOMAIN sess
    /\ (next_block_id - 1) \in DOMAIN sess
    /\ next_block_id > 4

\* ------------------------------------------------------------------------
\* C10: in the call just made, every dirty node dropped from the cache
\* was written to its own block before, and the file held its encoding
\* when it was dropped; an eviction inside get is followed at once by the
\* read of the requested block, and the write of a dirty evicted node
\* comes right before the drop; and when the handle is closed, every node
\* allocated or modified since it was opened is on disk in its final
\* state.
\* ------------------------------------------------------------------------
WrittenBeforeDrop(log, i) ==
    /\ log[i].ok
    /\ log[i].own = log[i].bid
    /\ \E h \in 1..(i - 1) : log[h].ev = "write" /\ log[h].bid = log[i].bid

EvictedBeforeRead(log, i) ==
    /\ i < Len(log) /\ log[i + 1].ev = "read"
    /\ log[i].dirty =>
          (i > 1 /\ log[i - 1].ev = "write" /\ log[i - 1].bid = log[i].bid)

C10_DirtyWrittenBeforeDrop ==
    /\ \A i \in 1..Len(last.log) :
          last.log[i].ev = "drop" =>
              /\ last.log[i].dirty => WrittenBeforeDrop(last.log, i)
              /\ last.op \notin {"close", "load"} =>
                    EvictedBeforeRead(last.log, i)
    /\ ~opened =>
          /\ last.op = "close" => last.err = "none"
          /\ cache = <<>>
          /\ \A b \in DOMAIN sess :
                b + 1 <= Len(file) /\ file[b + 1] = sess[b]

\* a get has just evicted a dirty node to read another block
C10_Witness ==
    /\ last.op # "close" /\ last.err = "none"
    /\ \E i \in 1..(Len(last.log) - 1) :
          /\ last.log[i].ev = "drop" /\ last.log[i].dirty
          /\ last.log[i + 1].ev = "read"

\* ------------------------------------------------------------------------
\* C11: eviction is strict LRU. The accesses of the call just made (get
\* hit, get-miss insertion, mark_dirty) are replayed on the ids resident
\* when it began, each access moving its id to the most recent end: every
\* eviction inside get removes the id at the least recent end of that
\* list, never the id accessed last while another is resident, and the
\* list left by the replay is the order of the cache after the call.
\* ------------------------------------------------------------------------
Without(order, bid) == SelectSeq(order, LAMBDA x : x # bid)

InOrder(order, bid) == \E p \in 1..Len(order) : order[p] = bid

\* the eviction of get is the drop that the read of the requested block
\* follows
IsEviction(log, i) ==
    log[i].ev = "drop" /\ i < Len(log) /\ log[i + 1].ev = "read"

Touch(r, log, i) ==
    IF log[i].ev = "hit"
    THEN [order |-> Append(Without(r.order, log[i].bid), log[i].bid),
          ok |-> r.ok /\ InOrder(r.order, log[i].bid)]
    ELSE IF log[i].ev = "read"
    THEN [order |-> Append(Without(r.order, log[i].bid), log[i].bid),
          ok |-> r.ok /\ ~InOrder(r.order, log[i].bid)]
    ELSE IF log[i].ev = "mark"
    THEN [order |-> Append(Without(r.order, log[i].bid), log[i].bid),
          ok |-> r.ok]
    ELSE IF log[i].ev = "drop"
    THEN [order |-> Without(r.order, log[i].bid),
          ok |-> r.ok /\ (IsEviction(log, i) =>
                     (/\ Len(r.order) >= 1
                      /\ r.order[1] = log[i].bid
                      /\ (Len(r.order) > 1 =>
                             r.order[Len(r.order)] # log[i].bid)))]
    ELSE r

RECURSIVE Replay(_, _, _)
Replay(r, log, i) ==
    IF i > Len(log) THEN r ELSE Replay(Touch(r, log, i), log, i + 1)

Recency == Replay([order |-> last.start, ok |-> TRUE], last.log, 1)

C11_StrictLRU ==
    /\ Recency.ok
    /\ Recency.order = [p \in 1..Len(cache) |-> cache[p].bid]

\* a call began with three resident nodes, hit the least recently used
\* one and then evicted another to read a block
C11_Witness ==
    /\ Len(last.start) >= max_nodes
    /\ \E i, j \in 1..Len(last.log) :
          /\ i < j
          /\ last.log[i].ev = "hit" /\ last.log[i].bid = last.start[1]
          /\ IsEviction(last.log, j)
          /\ last.log[j].bid = last.start[2]

\* ------------------------------------------------------------------------
\* The root split at 19 keys. The root becomes an internal node with the
\* single key keys[9] (0-indexed) of the 19 keys held before, in sorted
\* order, and two leaf children, which the split leaves with the 9
\* smaller and the 9 larger of those keys; the key of the insert, if new,
\* has joined one of them when the insert returns.
\* ------------------------------------------------------------------------
NodeKeys(node) == {node.keys[j] : j \in 1..Count(node)}

\* keys[T - 1] (0-indexed) of the keys in sorted order
MedianOf(keys) ==
    CHOOSE k \in keys : Cardinality({x \in keys : x < k}) = T - 1

SplitInTwo(root, pre, new) ==
    /\ root.keys = <<MedianOf(pre)>>
    /\ Len(root.children) = 2
    /\ root.children[1] # 0 /\ root.children[2] # 0
    /\ IsLeaf(NodeAt(root.children[1]))
    /\ IsLeaf(NodeAt(root.children[2]))
    /\ NodeKeys(NodeAt(root.children[1])) \ {new} =
          {x \in pre \ {new} : x < MedianOf(pre)}
    /\ NodeKeys(NodeAt(root.children[2])) \ {new} =
          {x \in pre \ {new} : x > MedianOf(pre)}
    /\ Cardinality({x \in pre : x < MedianOf(pre)}) = T - 1
    /\ Cardinality({x \in pre : x > MedianOf(pre)}) = T - 1
    /\ Count(NodeAt(root.children[1])) + Count(NodeAt(root.children[2]))
          = Cardinality((pre \cup {new}) \ {MedianOf(pre)})

RootJustSplit(pre) ==
    /\ last.err = "none"
    /\ last.alloc = 2
    /\ root_id = next_block_id - 2
    /\ SplitInTwo(NodeAt(root_id), pre, last.key)

\* the insert just made was the one of a 20th distinct key
TwentiethDistinct ==
    InsertedInRange /\ ~last.dup /\ NKeys = MAX_KEYS + 1

\* the insert just made found the root still the one leaf, with 19 keys,
\* and its key was new, or was one of the 19
FoundFullRootLeaf(dup) ==
    /\ InsertedInRange /\ last.dup = dup
    /\ NKeys = (IF dup THEN MAX_KEYS ELSE MAX_KEYS + 1)
    /\ next_block_id - last.alloc = 2

\* C12 as stated: every insert of a 20th distinct key into an index built
\* from nothing triggers the root split.
C12_EveryTwentiethDistinctSplits ==
    TwentiethDistinct => RootJustSplit(KeysIn \ {last.key})

\* C12, amended: the insert of a 20th distinct key triggers the root
\* split if the root is still the one leaf; and a re-insert of one of the
\* 19 keys into that leaf triggers the same split before it, after which
\* the 20th distinct key finds the root split already.
C12_TwentiethInsertSplitsRoot ==
    /\ FoundFullRootLeaf(FALSE) => RootJustSplit(KeysIn \ {last.key})
    /\ FoundFullRootLeaf(TRUE) => RootJustSplit(KeysIn)
    /\ (TwentiethDistinct /\ ~FoundFullRootLeaf(FALSE)) =>
          last.err = "none" /\ last.alloc = 0 /\ next_block_id = 4

\* the 20th distinct key, smaller than all before it, has just split the
\* root and joined the left leaf
C12_Witness ==
    /\ FoundFullRootLeaf(FALSE)
    /\ last.alloc = 2
    /\ \A k \in KeysIn : last.key <= k
    /\ Count(NodeAt(NodeAt(root_id).children[1])) = T

\* a re-insert of the median of the 19 keys has split the root leaf
C12_WitnessAgain ==
    /\ FoundFullRootLeaf(TRUE)
    /\ last.alloc = 2
    /\ NodeAt(root_id).keys = <<last.key>>
    /\ NodeAt(root_id).values = <<last.value>>

\* ------------------------------------------------------------------------
\* C13: once the keys 1..20 have been inserted in ascending order with
\* value = key * 10 into a new index, the root is an internal node with
\* the one key 10 and value 100, its left child holds the keys 1..9 and
\* its right child the keys 11..20, each with its value; a handle opened
\* on the file after close finds the same shape.
\* ------------------------------------------------------------------------
\* the node a handle opened on the file as it is now would get for block b
StoredNode(b) ==
    IF b + 1 <= Len(file) THEN Decode(b, file[b + 1]) ELSE Decode(b, ZeroBlock)

\* the keys from..to in ascending order, and their values
KeyRun(from, to) == [j \in 1..(to - from + 1) |-> from + j - 1]
ValueRun(from, to) == [j \in 1..(to - from + 1) |-> FirstValue(from + j - 1)]

Holds(node, from, to) ==
    /\ node.keys = KeyRun(from, to)
    /\ node.values = ValueRun(from, to)

TwentyShape(root, left, right) ==
    /\ Holds(root, T, T)
    /\ ~IsLeaf(root)
    /\ Len(root.children) = 2
    /\ left.block_id = root.children[1] /\ left.block_id # 0
    /\ right.block_id = root.children[2] /\ right.block_id # 0
    /\ Holds(left, 1, T - 1)
    /\ Holds(right, T + 1, 2 * T)

TwentyAscending == KeysIn = 1..(2 * T) /\ Canonical

C13_ShapeAfterTwenty ==
    TwentyAscending =>
        /\ opened =>
              /\ root_id # 0
              /\ Len(NodeAt(root_id).children) = 2
              /\ TwentyShape(NodeAt(root_id),
                             NodeAt(NodeAt(root_id).children[1]),
                             NodeAt(NodeAt(root_id).children[2]))
        /\ ~opened =>
              /\ LoadHeader(file).root_id # 0
              /\ Len(StoredNode(LoadHeader(file).root_id).children) = 2
              /\ TwentyShape(
                     StoredNode(LoadHeader(file).root_id),
                     StoredNode(StoredNode(LoadHeader(file).root_id).children[1]),
                     StoredNode(StoredNode(LoadHeader(file).root_id).children[2]))

\* the handle that inserted 1..20 has been closed and another opened
C13_Witness ==
    /\ TwentyAscending
    /\ opened /\ last.op = "open"
    /\ cache = <<>>
    /\ NodeAt(root_id).keys = <<T>>

\* ------------------------------------------------------------------------
\* C14: the first insert into a new index allocates one node and leaves a
\* root leaf holding that one key, with root_id = 1 and next_block_id = 2;
\* while fewer than 19 keys are in, and right after the insert of the 19th
\* distinct key, the tree is still that one leaf, holding all the keys:
\* no insert up to there has allocated or split, next_block_id is still 2.
\* ------------------------------------------------------------------------
SingleRootLeaf ==
    /\ root_id = 1
    /\ next_block_id = 2
    /\ NodeAt(1).block_id = 1
    /\ NodeAt(1).parent_id = 0
    /\ IsLeaf(NodeAt(1))
    /\ NodeKeys(NodeAt(1)) = KeysIn
    /\ Count(NodeAt(1)) = NKeys

\* the insert just made was the one of the n-th distinct key
JustInserted(n) == InsertedInRange /\ ~last.dup /\ NKeys = n

C14_SingleLeafUntilNineteen ==
    /\ JustInserted(1) =>
          /\ last.err = "none" /\ last.alloc = 1
          /\ SingleRootLeaf
          /\ NodeAt(1).keys = <<last.key>>
          /\ NodeAt(1).values = <<last.value>>
    /\ (NKeys >= 1 /\ NKeys < MAX_KEYS) => SingleRootLeaf
    /\ JustInserted(MAX_KEYS) => SingleRootLeaf
    /\ (InsertedInRange /\ NKeys > 1
          /\ (NKeys < MAX_KEYS \/ JustInserted(MAX_KEYS))) =>
          last.err = "none" /\ last.alloc = 0

\* the 19th distinct key has just gone into the root leaf
C14_Witness ==
    /\ JustInserted(MAX_KEYS)
    /\ Count(NodeAt(root_id)) = MAX_KEYS
    /\ next_block_id = 2

\* ------------------------------------------------------------------------
\* C15: an insert whose key or value is outside [0, 2^64 - 1] (here
\* 2^WordBits - 1) raises the range error and leaves root_id,
\* next_block_id, the cache and the file as they were, touching no node;
\* an insert at an end of the range, key or value 0 or 2^64 - 1, is
\* accepted and the key is then found with its value, while 2^64 and -1
\* are rejected in every state.
\* ------------------------------------------------------------------------
C15_RangeChecked ==
    /\ (last.op = "insert" /\ ~(InRange(last.key) /\ InRange(last.value))) =>
          /\ last.err = "range"
          /\ last.log = <<>> /\ last.alloc = 0
          /\ file = last.pre.file
          /\ cache = last.pre.cache
          /\ root_id = last.pre.root_id
          /\ next_block_id = last.pre.next_block_id
          /\ last.key \notin KeysIn
    /\ InsertedInRange =>
          /\ last.err = "none"
          /\ SearchOp(StartCall, last.key).ret = last.value
    /\ opened =>
          \A kv \in OutOfRange :
              InsertOp(StartCall, kv[1], kv[2]) = Raise(StartCall, "range")

\* a rejected insert on a handle that holds nodes
C15_Witness ==
    /\ last.op = "insert" /\ last.err = "range"
    /\ last.key = U64_MAX + 1
    /\ cache # <<>>

\* the largest key has been accepted by the full root leaf, which split
C15_WitnessEdge ==
    /\ last.op = "insert" /\ last.err = "none"
    /\ last.key = U64_MAX /\ last.alloc = 2

\* ------------------------------------------------------------------------
\* C16: a bulk load that stops at a short row, an unparsable number or an
\* out-of-range value raises, yet has closed the index: the cache is
\* empty, header and nodes are on disk, and a handle opened on the file
\* traverses to exactly the content before the load with insert applied
\* to the pairs ahead of the bad row, in order; the key of a pair behind
\* the bad row is not found unless it was in the index before.
\* ------------------------------------------------------------------------
RowKeys(rows) == {rows[j].key : j \in {h \in 1..Len(rows) : rows[h].kind = "pair"}}

C16_LoadAbortKeepsPrefix ==
    last.op = "load" =>
        /\ (last.err # "none") = (AbortAt(last.rows) <= Len(last.rows))
        /\ ~opened /\ cache = <<>>
        /\ LoadHeader(file).root_id = root_id
        /\ LoadHeader(file).next_block_id = next_block_id
        /\ InorderTraverse(ReopenCall).err = "none"
        /\ ExactPairs(InorderTraverse(ReopenCall).out)
        /\ \A k \in RowKeys(last.rows) \cap 0..U64_MAX :
              /\ SearchOp(ReopenCall, k).err = "none"
              /\ SearchOp(ReopenCall, k).ret = Lookup(k)

\* a load into the full root leaf has split it, applied a second pair and
\* stopped at the third row, with a pair behind it
C16_Witness ==
    /\ last.op = "load" /\ last.err # "none"
    /\ AbortAt(last.rows) = 3 /\ Len(last.rows) > 3
    /\ last.alloc = 2
    /\ NKeys = MAX_KEYS + 2

\* ------------------------------------------------------------------------
\* C17: every node _insert_nonfull is invoked on has fewer than 19 keys,
\* so no node holds more than 19 keys or 20 children at any mark_dirty,
\* at any write (encode never raises) or between calls; the entries of
\* one insert start at the root and each is on a child of the node of the
\* entry before, so the recursion goes down one level per call and the
\* insert returns.
\* ------------------------------------------------------------------------
Enters(log) == SelectSeq(log, LAMBDA e : e.ev = "enter")

\* the entries go from the root down, parent to child
Descends(e) ==
    /\ e # <<>> => e[1].bid = root_id /\ e[1].own = 0
    /\ \A i \in 1..(Len(e) - 1) :
          e[i + 1].own = e[i].bid /\ e[i + 1].bid # e[i].bid
    /\ \A i, j \in 1..Len(e) : i # j => e[i].bid # e[j].bid

WithinSize(keys, kids) == keys <= MAX_KEYS /\ kids <= MAX_CHILDREN

C17_NoNodeOverflows ==
    /\ \A i \in 1..Len(last.log) :
          /\ last.log[i].ev = "enter" =>
                last.log[i].ok /\ last.log[i].keys < MAX_KEYS
          /\ WithinSize(last.log[i].keys, last.log[i].kids)
    /\ last.err # "encode"
    /\ InsertedInRange =>
          /\ last.err = "none"
          /\ Descends(Enters(last.log))
          /\ (NKeys > 1 \/ last.dup) => Enters(last.log) # <<>>
    /\ \A p \in 1..Len(cache) :
          WithinSize(Len(cache[p].node.keys), Len(cache[p].node.children))
    /\ \A b \in 2..Len(file) : file[b][3] <= MAX_KEYS

\* an insert has gone down three levels and filled a leaf to 19 keys
C17_Witness ==
    /\ InsertedInRange /\ last.err = "none"
    /\ Len(Enters(last.log)) >= 3
    /\ \E i \in 1..Len(last.log) :
          last.log[i].ev = "mark" /\ last.log[i].keys = MAX_KEYS

\* ------------------------------------------------------------------------
\* C18: the cache writes node blocks only: every write of the call just
\* made went to a block id >= 1, the id of the node written, and every
\* block other than the header that the call changed was written by the
\* cache; no node has id 0; an insert, a search or a traversal leaves the
\* header block as it was, and the header on disk changes only in close
\* (cmd_load's included), create having written the first.
\* ------------------------------------------------------------------------
WrittenIds(log) ==
    {log[i].bid : i \in {h \in 1..Len(log) : log[h].ev = "write"}}

C18_WritesPartitioned ==
    /\ \A i \in 1..Len(last.log) :
          /\ last.log[i].ev = "write" =>
                last.log[i].bid >= 1 /\ last.log[i].own = last.log[i].bid
          /\ last.log[i].ev \in {"mark", "read", "hit", "drop"} =>
                last.log[i].bid >= 1
    /\ last.touched \ {0} \subseteq WrittenIds(last.log)
    /\ 0 \in last.touched =>
          /\ last.op \in {"close", "load"}
          /\ file[1] = HeaderBlock(root_id, next_block_id)
    /\ last.op \in {"insert", "search", "traverse"} => 0 \notin last.touched
    /\ next_block_id >= 1
    /\ \A p \in 1..Len(cache) :
          cache[p].bid >= 1 /\ cache[p].node.block_id >= 1
    /\ file[1][1] = MAGIC

\* an insert on a handle has written nodes to the file, evicting them,
\* while the header on disk is behind the handle's root_id and
\* next_block_id
C18_Witness ==
    /\ last.op = "insert" /\ last.alloc >= 1
    /\ WrittenIds(last.log) # {}
    /\ last.touched # {}
    /\ LoadHeader(file).root_id # root_id
    /\ LoadHeader(file).next_block_id # next_block_id

\* ------------------------------------------------------------------------
\* C19: no update is lost to eviction. In the call just made, every read
\* of a block on a miss found the file holding the encoding of every
\* object the call had for that id, and every mark_dirty either put its
\* node into the cache anew or found that same object resident. Between
\* calls, the latest version of every node allocated or modified since
\* the handle was opened is the resident object or, if none is resident,
\* the block on disk, and a resident node that is not dirty equals its
\* block. This covers the split of an internal node during which the
\* parent, the full child or the new sibling is evicted while held.
\* ------------------------------------------------------------------------
LatestKept(b) ==
    IF CachePos(cache, b) # 0
    THEN Encode(cache[CachePos(cache, b)].node) = sess[b]
    ELSE BlockOf(file, b) = sess[b]

C19_NoUpdateLost ==
    /\ \A i \in 1..Len(last.log) :
          last.log[i].ev \in {"read", "mark"} => last.log[i].ok
    /\ last.err \notin {"io", "encode", "index"}
    /\ \A b \in DOMAIN sess : LatestKept(b)
    /\ \A p \in 1..Len(cache) :
          /\ cache[p].node.block_id = cache[p].bid
          /\ ~cache[p].node.dirty =>
                BlockOf(file, cache[p].bid) = Encode(cache[p].node)
          /\ \A q \in 1..Len(cache) : cache[q].bid = cache[p].bid => q = p

\* an insert has split an internal node, and a dirty node it held was
\* evicted by a get and marked dirty again afterwards
C19_Witness ==
    /\ last.op = "insert" /\ last.alloc >= 1 /\ Deep
    /\ \E i, j \in 1..Len(last.log) :
          /\ i < j
          /\ IsEviction(last.log, i) /\ last.log[i].dirty
          /\ last.log[j].ev = "mark" /\ last.log[j].bid = last.log[i].bid
          /\ last.log[j].kids > 1

\* ------------------------------------------------------------------------
\* C20: search and inorder_traverse are read-only. After either, root_id
\* and next_block_id are what they were, every allocated node has the
\* content it had (the resident object if there is one, else the block
\* on disk), the header block is untouched, mark_dirty was not called, a
\* node that is dirty afterwards is an object that was resident and dirty
\* before and a node loaded by the call is clean; the call wrote only
\* nodes that were resident and dirty when it began (evicting them), none
\* that it had read. In every
\* call, a node that is written is dirty, that is, was passed to
\* mark_dirty.
\* ------------------------------------------------------------------------
\* the node get_node(b) would have returned when the call began
PreNode(b) ==
    IF CachePos(last.pre.cache, b) # 0
    THEN last.pre.cache[CachePos(last.pre.cache, b)].node
    ELSE Decode(b, BlockOf(last.pre.file, b))

WasDirty(b) ==
    /\ CachePos(last.pre.cache, b) # 0
    /\ last.pre.cache[CachePos(last.pre.cache, b)].node.dirty

ReadOnlyLog(log) ==
    \A i \in 1..Len(log) :
        /\ log[i].ev \notin {"mark", "enter"}
        /\ log[i].ev = "read" => ~log[i].dirty
        /\ log[i].ev = "write" =>
              /\ WasDirty(log[i].bid)
              /\ \A h \in 1..(i - 1) :
                    ~(log[h].ev = "read" /\ log[h].bid = log[i].bid)

C20_ReadsChangeNothing ==
    /\ last.op \in {"search", "traverse"} =>
          /\ root_id = last.pre.root_id
          /\ next_block_id = last.pre.next_block_id
          /\ last.alloc = 0 /\ 0 \notin last.touched
          /\ \A b \in 1..(next_block_id - 1) :
                Encode(NodeAt(b)) = Encode(PreNode(b))
          /\ ReadOnlyLog(last.log)
          /\ \A p \in 1..Len(cache) :
                cache[p].node.dirty =>
                    /\ WasDirty(cache[p].bid)
                    /\ cache[p].node = PreNode(cache[p].bid)
    /\ \A i \in 1..Len(last.log) :
          last.log[i].ev = "write" => last.log[i].dirty

\* a traversal has evicted dirty nodes, which were written, and read
\* blocks that it dropped again unwritten
C20_Witness ==
    /\ last.op = "traverse"
    /\ \E i \in 1..Len(last.log) : last.log[i].ev = "write"
    /\ \E i, j \in 1..Len(last.log) :
          /\ i < j
          /\ last.log[i].ev = "read"
          /\ last.log[j].ev = "drop" /\ last.log[j].bid = last.log[i].bid
          /\ ~last.log[j].dirty

====
